---- MODULE Spec2Model ----
(***************************************************************************)
(* Population-count strategies (count_bits_bench.cpp), the lazily built    *)
(* full table with its four workers, the consistency checker and the       *)
(* benchmark threads, and the two integer-reversal solutions               *)
(* (reverse_int_bench.cpp).                                                *)
(*                                                                         *)
(* A uint32_t is the pair <<hi, lo>> of its two 16-bit halves, since the   *)
(* model checker's integers end at 2^31 - 1; every operation below is      *)
(* taken modulo 2^32 as the C++ unsigned arithmetic is.                    *)
(***************************************************************************)
EXTENDS Integers, Sequences, FiniteSets, TLC

\* ------------------------------------------------------------- bounds

\* How many extra pseudo-random half-words join the fixed corner cases.
SampleSpread == 8
\* Length of the sample array (100000 in GenerateNumbers).
NumsLen == 2
\* Benchmark iterations the harness runs of a `for (auto _ : state)` loop.
MaxIters == 2
\* Benchmark threads (the registrations use 1, 2, 4 and 8).
NThreads == 2
\* Width of the full table's index (32 in the code: 1ull << 32 entries).
TableBits == 3
\* How far the values BM_Find reverses spread around 0, INT_MIN and INT_MAX.
ReverseSpread == 12

\* ------------------------------------------------- uint32_t arithmetic

\* 2^16: a uint32_t is hi * Half + lo.
Half == 2^16

U32(hi, lo) == <<hi, lo>>

\* The uint32_t of a small non-negative integer (an index, a literal).
ToU32(k) == <<k \div Half, k % Half>>

Zero32 == <<0, 0>>

RECURSIVE BitAnd16(_, _)
BitAnd16(a, b) ==
    IF a = 0 \/ b = 0 THEN 0
    ELSE (a % 2) * (b % 2) + 2 * BitAnd16(a \div 2, b \div 2)

\* a & b
And32(a, b) == <<BitAnd16(a[1], b[1]), BitAnd16(a[2], b[2])>>

\* a >> k, 0 <= k <= 31 (a logical shift: the operand is unsigned)
Shr32(a, k) ==
    IF k = 0 THEN a
    ELSE IF k < 16
         THEN <<a[1] \div 2^k, (a[2] \div 2^k) + (a[1] % 2^k) * 2^(16 - k)>>
         ELSE <<0, a[1] \div 2^(k - 16)>>

\* a + b modulo 2^32
Add32(a, b) ==
    LET lo == a[2] + b[2]
    IN  <<(a[1] + b[1] + lo \div Half) % Half, lo % Half>>

\* a - b modulo 2^32
Sub32(a, b) ==
    LET lo == a[2] - b[2]
        borrow == IF lo < 0 THEN 1 ELSE 0
    IN  <<(a[1] - b[1] - borrow) % Half, lo % Half>>

\* x * y modulo 2^16, for 16-bit x and y, without leaving 31 bits
MulLow16(x, y) == (x * (y % 256) + ((x * (y \div 256)) % 256) * 256) % Half

\* a * b modulo 2^32
Mul32(a, b) ==
    LET p0 == a[2] * (b[2] % 256)
        p1 == a[2] * (b[2] \div 256)
        low == p0 + (p1 % 256) * 256
        carry == low \div Half + p1 \div 256
    IN  <<(carry + MulLow16(a[1], b[2]) + MulLow16(a[2], b[1])) % Half,
          low % Half>>

\* static_cast<uint16_t>(a)
ToU16(a) == a[2]

\* Number of 1 bits of a 16-bit integer, bit by bit.
RECURSIVE Bits16(_)
Bits16(a) == IF a = 0 THEN 0 ELSE (a % 2) + Bits16(a \div 2)

\* Number of 1 bits of a uint32_t, bit by bit.
PopCount(n) == Bits16(n[1]) + Bits16(n[2])

\* ------------------------------------------------ counting strategies

\* while (n) { n &= n - 1; ++i; } return i;
RECURSIVE ReferenceLoop(_, _)
ReferenceLoop(n, i) ==
    IF n = Zero32 THEN i
    ELSE ReferenceLoop(And32(n, Sub32(n, ToU32(1))), i + 1)

\* A loop that drops the lowest bit whatever its value.
RECURSIVE ShiftLoop(_, _)
ShiftLoop(n, i) ==
    IF n = Zero32 THEN i ELSE ShiftLoop(Shr32(n, 1), i + 1)

ReferenceSolution_Count_Shifting(n) == ShiftLoop(n, 0)

ReferenceSolution_Count(n) == ReferenceLoop(n, 0)

\* __builtin_popcount (n)
AsmSolution_Count(n) == PopCount(n)

M55 == U32(21845, 21845)       \* 0x55555555
M33 == U32(13107, 13107)       \* 0x33333333
M0F == U32(3855, 3855)         \* 0x0f0f0f0f
M01 == U32(257, 257)           \* 0x01010101

\* The magic solution with its first mask one bit short (0x55555554).
MagicSolution_Count_BadMask(v) ==
    LET v1 == Sub32(v, And32(Shr32(v, 1), U32(21845, 21844)))
        v2 == Add32(And32(v1, M33), And32(Shr32(v1, 2), M33))
    IN  ToU16(Shr32(Mul32(And32(Add32(v2, Shr32(v2, 4)), M0F), M01), 24))

MagicSolution_Count(v) ==
    LET v1 == Sub32(v, And32(Shr32(v, 1), M55))
        v2 == Add32(And32(v1, M33), And32(Shr32(v1, 2), M33))
    IN  ToU16(Shr32(Mul32(And32(Add32(v2, Shr32(v2, 4)), M0F), M01), 24))

\* CountTable<TableSize>()[ii]: the table holds ReferenceSolution::Count (ii)
\* for ii < TableSize.  An index past the end is outside the array; the
\* indices below never are (IndicesInsideTables), and -1 marks the read.
CountTable(TableSize, ii) ==
    IF ii < TableSize THEN ReferenceSolution_Count(ToU32(ii)) ELSE -1

\* The integer value of a uint32_t used as an array index; values from 2^31
\* on (beyond every table here) are all read as 2^31 - 1.
Index(a) == IF a[1] < 2^15 THEN a[1] * Half + a[2] ELSE 2147483647

\* The four indices of ByteTableSolution::Count, n shifted in place.
ByteTableSolution_Indices(n) ==
    LET n1 == Shr32(n, 8)
        n2 == Shr32(n1, 8)
    IN  << Index(And32(n, ToU32(255))),
           Index(And32(n1, ToU32(255))),
           Index(And32(n2, ToU32(255))),
           Index(And32(Shr32(n2, 8), ToU32(255))) >>

ByteTableSolution_Count(n) ==
    LET ix == ByteTableSolution_Indices(n)
    IN  CountTable(256, ix[1]) + CountTable(256, ix[2])
        + CountTable(256, ix[3]) + CountTable(256, ix[4])

\* The eleven-bit indices with the second chunk left unmasked.
ElevenBitsTableSolution_Indices_Unmasked(n) ==
    LET n1 == Shr32(n, 11)
    IN  << Index(And32(n, ToU32(2047))),
           Index(n1),
           Index(Shr32(n1, 11)) >>

\* The three indices of ElevenBitsTableSolution::Count.
ElevenBitsTableSolution_Indices(n) ==
    LET n1 == Shr32(n, 11)
    IN  << Index(And32(n, ToU32(2047))),
           Index(And32(n1, ToU32(2047))),
           Index(Shr32(n1, 11)) >>

ElevenBitsTableSolution_Count(n) ==
    LET ix == ElevenBitsTableSolution_Indices(n)
    IN  CountTable(2048, ix[1]) + CountTable(2048, ix[2])
        + CountTable(2048, ix[3])

\* The two indices of WordsTableSolution::Count.
WordsTableSolution_Indices(n) ==
    << Index(And32(n, ToU32(65535))), Index(Shr32(n, 16)) >>

WordsTableSolution_Count(n) ==
    LET ix == WordsTableSolution_Indices(n)
    IN  CountTable(65536, ix[1]) + CountTable(65536, ix[2])

\* The entry a worker stores at index ii of the full table.
FullTableEntry(ii) == ElevenBitsTableSolution_Count(ii)

\* FullTableSolution::Count once the table has been built.
FullTableSolution_Count(n) == FullTableEntry(n)

\* ------------------------------------------------- reverse (signed int)

INT_MAX == 2147483647
INT_MIN == -2147483647 - 1

\* x / 10 and x % 10 of C++: the quotient is truncated toward zero and the
\* remainder has the sign of x.
CDiv10(x) == IF x < 0 /\ x % 10 # 0 THEN (x \div 10) + 1 ELSE x \div 10
CMod10(x) == IF x < 0 /\ x % 10 # 0 THEN (x % 10) - 10 ELSE x % 10

\* Whether res * 10 + sub is an int, decided on the 16-bit halves of res.
MulAddHigh(res, sub) == (res \div Half) * 10 + ((res % Half) * 10 + sub) \div Half
MulAddFits(res, sub) == MulAddHigh(res, sub) \in (-(2^15))..(2^15 - 1)
MulAdd(res, sub) == MulAddHigh(res, sub) * Half + (((res % Half) * 10 + sub) % Half)

\* A value that left the range of int stands for the undefined result.
Overflowed == [val |-> 0, ovf |-> TRUE]
Value(v) == [val |-> v, ovf |-> FALSE]

\* -v as an int
Negate(r) == IF r.ovf \/ r.val = INT_MIN THEN Overflowed ELSE Value(-r.val)

\* MySolution's guards with the first one missing.
MySolution_guard_NoRangeCheck(res, sub) == res = CDiv10(INT_MIN) /\ sub < -8

\* if (res < INT_MIN / 10) return 0;
\* if (res == INT_MIN / 10 && sub < -8) return 0;
MySolution_guard(res, sub) ==
    \/ res < CDiv10(INT_MIN)
    \/ res = CDiv10(INT_MIN) /\ sub < -8

\* The while loop of MySolution::reverse, entered with x <= 0.
RECURSIVE MySolution_loop(_, _)
MySolution_loop(x, res) ==
    IF x = 0 THEN Value(res)
    ELSE LET sub == CMod10(x)
             x1 == CDiv10(x)
         IN  IF MySolution_guard(res, sub) THEN Value(0)
             ELSE IF ~MulAddFits(res, sub) THEN Overflowed
             ELSE MySolution_loop(x1, MulAdd(res, sub))

MySolution_reverse(x) ==
    IF x > 0
    THEN LET minus == Negate(Value(x))
             res == IF minus.ovf THEN Overflowed ELSE MySolution_loop(minus.val, 0)
         IN  IF ~res.ovf /\ res.val = INT_MIN THEN Value(0) ELSE Negate(res)
    ELSE MySolution_loop(x, 0)

RECURSIVE ReferenceSolution_loop(_, _)
ReferenceSolution_loop(x, rev) ==
    IF x = 0 THEN Value(rev)
    ELSE LET pop == CMod10(x)
             x1 == CDiv10(x)
         IN  IF rev > CDiv10(INT_MAX) \/ (rev = CDiv10(INT_MAX) /\ pop > 7)
             THEN Value(0)
             ELSE IF rev < CDiv10(INT_MIN) \/ (rev = CDiv10(INT_MIN) /\ pop < -8)
             THEN Value(0)
             ELSE IF ~MulAddFits(rev, pop) THEN Overflowed
             ELSE ReferenceSolution_loop(x1, MulAdd(rev, pop))

ReferenceSolution_reverse(x) == ReferenceSolution_loop(x, 0)

\* The decimal digits of x from the least significant one, each as a
\* magnitude.
RECURSIVE DecimalDigits(_)
DecimalDigits(x) ==
    IF x = 0 THEN <<>>
    ELSE <<IF CMod10(x) < 0 THEN -CMod10(x) ELSE CMod10(x)>> \o DecimalDigits(CDiv10(x))

\* The number whose decimal digits, most significant first, are ds[a..b].
RECURSIVE DigitsValue(_, _, _)
DigitsValue(ds, a, b) ==
    IF a > b THEN 0 ELSE DigitsValue(ds, a, b - 1) * 10 + ds[b]

\* x with its decimal digits reversed and its sign kept, 0 when that is no
\* int: the reversed magnitude is high * 10^5 + low.
ReversedDigits(x) ==
    LET ds == DecimalDigits(x)
        n == Len(ds)
        high == DigitsValue(ds, 1, n - 5)
        low == DigitsValue(ds, IF n > 5 THEN n - 4 ELSE 1, n)
        limit == IF x < 0 THEN 83648 ELSE 83647
        fits == high < 21474 \/ (high = 21474 /\ low <= limit)
    IN  IF ~fits THEN 0
        ELSE IF x < 0 THEN -(high * 100000) - low
        ELSE high * 100000 + low

\* ---------------------------------------------------------- variables

VARIABLES
    \* BM_CountCheck and BM_Count
    nums,             \* the sample array of GenerateNumbers
    cc_pc,            \* BM_CountCheck: "run", "done" or "thrown"
    cc_i,             \* samples of the current iteration already checked
    cc_iter,          \* benchmark iterations completed
    num,              \* the sample last taken from nums by BM_CountCheck
    etalon,           \* ReferenceSolution::Count of the last sample
    ress,             \* the six strategies' results for the last sample
    items_processed,  \* state.items_processed()
    \* FullTableSolution
    elide,            \* the build elides the copy of `return table`
    unwinds,          \* the build unwinds the stack up to a noexcept function
    proc,             \* the process: "running", "terminated" or "crashed"
    guard,            \* the guard of GetTable's static `table`
    builder,          \* the thread inside CountFullTable, 0 when none
    local,            \* CountFullTable's local `table`: "none", "owns", "moved"
    table,            \* the allocated array: index -> entry, Uninit when unwritten
    spawned,          \* workers started by CountFullTable's loop
    joined,           \* futures already destroyed at the end of CountFullTable
    wstate,           \* worker -> "unborn", "running", "done"
    wii,              \* worker -> its loop variable ii
    \* BM_Count<FullTableSolution>, one per benchmark thread
    pc,               \* thread -> where it is
    phase,            \* thread -> "warmup", "timed", "finished"
    ti,               \* thread -> samples of the current iteration already counted
    titer,            \* thread -> benchmark iterations completed
    got,              \* thread -> the last value Count returned to it
    \* observers
    builds,           \* invocations of CountFullTable
    writes,           \* index -> stores made to that entry
    handed,           \* the result object of CountFullTable holds the array
    failed,           \* an allocation of the table has failed
    returned,         \* calls of FullTableSolution::Count that returned
    timedRead,        \* some thread has read the table inside its timed loop
    \* BM_Find
    rx,               \* the value BM_Find reverses
    rev_my,           \* MySolution::reverse (rx), once called
    rev_ref           \* ReferenceSolution::reverse (rx), once called

checkVars == <<cc_pc, cc_i, cc_iter, num, etalon, ress, items_processed>>

buildVars ==
    <<elide, unwinds, proc, guard, builder, local, table, spawned, joined,
      wstate, wii, pc, phase, ti, titer, got, builds, writes, handed, failed,
      returned, timedRead>>

reverseVars == <<rx, rev_my, rev_ref>>

vars == <<nums, checkVars, buildVars, reverseVars>>

\* ------------------------------------------------------ sample values

\* Half-words every sample set combines: 0, 0xFFFF, 0x5555, 0xAAAA, 0b1011,
\* the table-size boundaries and every power of two.
SpecialHalves ==
    <<0, 65535, 21845, 43690, 11, 255, 256, 2047, 2048, 1, 2, 4, 8, 16, 32,
      64, 128, 512, 1024, 4096, 8192, 16384, 32768>>

SpreadHalves == [k \in 1..SampleSpread |-> (k * 40503) % Half]

HalfSeq == SpecialHalves \o SpreadHalves

NumInputs == Len(HalfSeq) * Len(HalfSeq)

InputAt(k) == U32(HalfSeq[(k \div Len(HalfSeq)) + 1], HalfSeq[(k % Len(HalfSeq)) + 1])

\* GenerateNumbers(): an array of uniformly drawn uint32_t values.  The
\* generator is the standard library's; a draw is one of the sequences below.
GenerateNumbers(seed) ==
    [j \in 1..NumsLen |-> InputAt((seed + (j - 1) * 29) % NumInputs)]

\* ------------------------------------------------------ BM_CountCheck

Strategies(n) ==
    << AsmSolution_Count(n),
       ByteTableSolution_Count(n),
       ElevenBitsTableSolution_Count(n),
       WordsTableSolution_Count(n),
       MagicSolution_Count(n),
       FullTableSolution_Count(n) >>

\* std::count (cbegin (ress), cend (ress), etalon)
StdCount(rs, e) == Cardinality({k \in 1..Len(rs) : rs[k] = e})

\* The comparison with == where the code has !=.
Mismatch_Inverted(rs, e) == StdCount(rs, e) = Len(rs)

\* if (std::count (...) != std::size (ress)) throw
Mismatch(rs, e) == StdCount(rs, e) # Len(rs)

\* -------------------------------------------------- FullTableSolution

\* std::array<std::future<void>, 4> workers
NumWorkers == 4

Threads == 1..NThreads
Workers == 0..(NumWorkers - 1)

\* 1ull << 32, at the modelled index width
TableSize == 2^TableBits
TableIndices == 0..(TableSize - 1)

\* const auto batch = (1ull << 32)/workers.size();
batch == TableSize \div NumWorkers

\* start = ii*batch
RangeStart(ii) == ii * batch

\* (ii + 1)*batch computed in the index width, where the last one wraps to 0.
RangeFinish_Wrapped(ii) == ((ii + 1) * batch) % TableSize

\* finish = (ii + 1)*batch, in 64-bit arithmetic
RangeFinish(ii) == (ii + 1) * batch

\* An entry of the make_unique_noinit allocation nobody has stored to.
Uninit == 0 - 1

\* The index a sample value selects in the modelled table.
TableIndex(n) == n[2] % TableSize

\* The values a uint32_t entry can be read as: what was stored, anything
\* when nothing was.
ReadOutcomes(ii) == IF table[ii] = Uninit THEN 0..32 ELSE {table[ii]}

\* BM_Count without the line `Solution::Count (42);`.
BM_Count_NoHeatup == "timed"

\* BM_Count starts with the heat-up call, before `for (auto _ : state)`.
BM_Count_Entry == "warmup"

\* The argument of thread t's pending call of Count.
Argument(t) == IF phase[t] = "warmup" THEN ToU32(42) ELSE nums[ti[t] + 1]

BuildInit ==
    /\ elide \in BOOLEAN
    /\ unwinds \in BOOLEAN
    /\ proc = "running"
    /\ guard = "Uninitialized"
    /\ builder = 0
    /\ local = "none"
    /\ table = [ii \in TableIndices |-> Uninit]
    /\ spawned = 0
    /\ joined = 0
    /\ wstate = [w \in Workers |-> "unborn"]
    /\ wii = [w \in Workers |-> 0]
    /\ pc = [t \in Threads |-> "call"]
    /\ phase = [t \in Threads |-> BM_Count_Entry]
    /\ ti = [t \in Threads |-> 0]
    /\ titer = [t \in Threads |-> 0]
    /\ got = [t \in Threads |-> Uninit]
    /\ builds = 0
    /\ writes = [ii \in TableIndices |-> 0]
    /\ handed = FALSE
    /\ failed = FALSE
    /\ returned = 0
    /\ timedRead = FALSE

threadVars == <<pc, phase, ti, titer, got>>
workerVars == <<wstate, wii, table, writes>>
buildOptions == <<elide, unwinds, nums, checkVars, reverseVars>>

\* GetTable() with the static already initialised: the guard is passed.
PassGuard(t) ==
    /\ proc = "running"
    /\ pc[t] = "call"
    /\ guard = "Ready"
    /\ pc' = [pc EXCEPT ![t] = "read"]
    /\ UNCHANGED <<proc, guard, builder, local, spawned, joined, workerVars,
                   phase, ti, titer, got, builds, handed, failed, returned,
                   timedRead, buildOptions>>

\* GetTable() finds the static uninitialised: this thread takes the guard and
\* calls CountFullTable().  A thread that finds another one initialising it
\* waits (no step).
AcquireGuard(t) ==
    /\ proc = "running"
    /\ pc[t] = "call"
    /\ guard = "Uninitialized"
    /\ guard' = "Building"
    /\ builder' = t
    /\ builds' = builds + 1
    /\ pc' = [pc EXCEPT ![t] = "alloc"]
    /\ UNCHANGED <<proc, local, spawned, joined, workerVars, phase, ti, titer,
                   got, handed, failed, returned, timedRead, buildOptions>>

\* auto table = boost::make_unique_noinit<uint32_t[]> (1ull << 32);
Allocate(t) ==
    /\ proc = "running"
    /\ pc[t] = "alloc"
    /\ local' = "owns"
    /\ table' = [ii \in TableIndices |-> Uninit]
    /\ writes' = [ii \in TableIndices |-> 0]
    /\ spawned' = 0
    /\ joined' = 0
    /\ pc' = [pc EXCEPT ![t] = "spawn"]
    /\ UNCHANGED <<proc, guard, builder, wstate, wii, phase, ti, titer, got,
                   builds, handed, failed, returned, timedRead, buildOptions>>

\* The allocation throws std::bad_alloc.  The exception meets the noexcept of
\* Count: std::terminate is called, after the stack has been unwound through
\* GetTable (the guard is released, the initialisation is not complete) in a
\* build that unwinds, at once in one that does not.
AllocateFails(t) ==
    /\ proc = "running"
    /\ pc[t] = "alloc"
    /\ failed' = TRUE
    /\ IF unwinds
       THEN guard' = "Uninitialized" /\ builder' = 0
       ELSE UNCHANGED <<guard, builder>>
    /\ pc' = [pc EXCEPT ![t] = "terminate"]
    /\ UNCHANGED <<proc, local, spawned, joined, workerVars, phase, ti, titer,
                   got, builds, handed, returned, timedRead, buildOptions>>

\* std::terminate()
Terminate(t) ==
    /\ proc = "running"
    /\ pc[t] = "terminate"
    /\ proc' = "terminated"
    /\ UNCHANGED <<guard, builder, local, spawned, joined, workerVars,
                   threadVars, builds, handed, failed, returned, timedRead,
                   buildOptions>>

\* workers[ii] = std::async (std::launch::async, [&table, start, finish] ...)
Spawn(t) ==
    /\ proc = "running"
    /\ pc[t] = "spawn"
    /\ spawned < NumWorkers
    /\ wstate' = [wstate EXCEPT ![spawned] = "running"]
    /\ wii' = [wii EXCEPT ![spawned] = RangeStart(spawned)]
    /\ spawned' = spawned + 1
    /\ pc' = [pc EXCEPT ![t] = IF spawned + 1 = NumWorkers THEN "return" ELSE "spawn"]
    /\ UNCHANGED <<proc, guard, builder, local, joined, table, writes, phase,
                   ti, titer, got, builds, handed, failed, returned, timedRead,
                   buildOptions>>

\* return table;  The result object is initialised before any local is
\* destroyed: with the copy elided `table` is the result object itself,
\* otherwise the array moves to the result and `table` is left null.
Return(t) ==
    /\ proc = "running"
    /\ pc[t] = "return"
    /\ IF elide
       THEN UNCHANGED <<local, handed>>
       ELSE local' = "moved" /\ handed' = TRUE
    /\ joined' = 0
    /\ pc' = [pc EXCEPT ![t] = "join"]
    /\ UNCHANGED <<proc, guard, builder, spawned, workerVars, phase, ti, titer,
                   got, builds, failed, returned, timedRead, buildOptions>>

\* ~array<future>: the futures are destroyed last to first and the destructor
\* of a future of std::async waits for its task.
Join(t) ==
    /\ proc = "running"
    /\ pc[t] = "join"
    /\ joined < NumWorkers
    /\ wstate[NumWorkers - 1 - joined] = "done"
    /\ joined' = joined + 1
    /\ pc' = [pc EXCEPT ![t] = IF joined + 1 = NumWorkers THEN "exit" ELSE "join"]
    /\ UNCHANGED <<proc, guard, builder, local, spawned, workerVars, phase, ti,
                   titer, got, builds, handed, failed, returned, timedRead,
                   buildOptions>>

\* CountFullTable returns to GetTable, whose static is now initialised: the
\* guard is released and every waiting thread goes on.
Exit(t) ==
    /\ proc = "running"
    /\ pc[t] = "exit"
    /\ guard' = "Ready"
    /\ builder' = 0
    /\ local' = "none"
    /\ handed' = TRUE
    /\ pc' = [pc EXCEPT ![t] = "read"]
    /\ UNCHANGED <<proc, spawned, joined, workerVars, phase, ti, titer, got,
                   builds, failed, returned, timedRead, buildOptions>>

\* return GetTable()[n];  After the heat-up call the thread enters its timed
\* loop; inside it the next sample follows.
Read(t) ==
    /\ proc = "running"
    /\ pc[t] = "read"
    /\ \E v \in ReadOutcomes(TableIndex(Argument(t))) :
          got' = [got EXCEPT ![t] = v]
    /\ returned' = returned + 1
    /\ IF phase[t] = "warmup"
       THEN /\ phase' = [phase EXCEPT ![t] = "timed"]
            /\ pc' = [pc EXCEPT ![t] = "call"]
            /\ UNCHANGED <<ti, timedRead>>
       ELSE /\ timedRead' = TRUE
            /\ ti' = [ti EXCEPT ![t] = ti[t] + 1]
            /\ pc' = [pc EXCEPT ![t] = IF ti[t] + 1 = NumsLen THEN "items" ELSE "call"]
            /\ UNCHANGED phase
    /\ UNCHANGED <<proc, guard, builder, local, spawned, joined, workerVars,
                   titer, builds, handed, failed, buildOptions>>

\* state.SetItemsProcessed (...), then another iteration or the end.
CountItems(t) ==
    /\ proc = "running"
    /\ pc[t] = "items"
    /\ titer' = [titer EXCEPT ![t] = titer[t] + 1]
    /\ ti' = [ti EXCEPT ![t] = 0]
    /\ \E more \in BOOLEAN :
          IF more /\ titer[t] + 1 < MaxIters
          THEN pc' = [pc EXCEPT ![t] = "call"] /\ UNCHANGED phase
          ELSE /\ pc' = [pc EXCEPT ![t] = "done"]
               /\ phase' = [phase EXCEPT ![t] = "finished"]
    /\ UNCHANGED <<proc, guard, builder, local, spawned, joined, workerVars,
                   got, builds, handed, failed, returned, timedRead,
                   buildOptions>>

\* table[ii] = ElevenBitsTableSolution::Count (ii); ++ii
\* `table` is the captured reference to CountFullTable's local.  Once that
\* local has been moved from, the store goes through the pointer the worker
\* still holds (this action) or through the null one (WorkerFaults).
WorkerStores(w) ==
    /\ proc = "running"
    /\ wstate[w] = "running"
    /\ wii[w] < RangeFinish(w)
    /\ table' = [table EXCEPT ![wii[w]] = FullTableEntry(ToU32(wii[w]))]
    /\ writes' = [writes EXCEPT ![wii[w]] = writes[wii[w]] + 1]
    /\ wii' = [wii EXCEPT ![w] = wii[w] + 1]
    /\ UNCHANGED <<proc, guard, builder, local, spawned, joined, wstate,
                   threadVars, builds, handed, failed, returned, timedRead,
                   buildOptions>>

WorkerFaults(w) ==
    /\ proc = "running"
    /\ wstate[w] = "running"
    /\ wii[w] < RangeFinish(w)
    /\ local = "moved"
    /\ proc' = "crashed"
    /\ UNCHANGED <<guard, builder, local, spawned, joined, workerVars,
                   threadVars, builds, handed, failed, returned, timedRead,
                   buildOptions>>

\* The loop ends and the task's future becomes ready.
WorkerEnds(w) ==
    /\ proc = "running"
    /\ wstate[w] = "running"
    /\ wii[w] >= RangeFinish(w)
    /\ wstate' = [wstate EXCEPT ![w] = "done"]
    /\ UNCHANGED <<proc, guard, builder, local, spawned, joined, wii, table,
                   writes, threadVars, builds, handed, failed, returned,
                   timedRead, buildOptions>>

\* ------------------------------------------------------ BM_CountCheck

CheckInit ==
    /\ cc_pc = "run"
    /\ cc_i = 0
    /\ cc_iter = 0
    /\ num = Zero32
    /\ etalon = 0
    /\ ress = <<>>
    /\ items_processed = 0

\* One pass of the inner loop body: the sample is counted by every strategy
\* and the exception leaves the function at once.
CheckSample ==
    /\ cc_pc = "run"
    /\ cc_i < NumsLen
    /\ LET n == nums[cc_i + 1]
           e == ReferenceSolution_Count(n)
           rs == Strategies(n)
       IN  /\ num' = n
           /\ etalon' = e
           /\ ress' = rs
           /\ IF Mismatch(rs, e)
              THEN cc_pc' = "thrown" /\ UNCHANGED cc_i
              ELSE cc_i' = cc_i + 1 /\ UNCHANGED cc_pc
    /\ UNCHANGED <<nums, cc_iter, items_processed, buildVars, reverseVars>>

\* state.SetItemsProcessed (state.items_processed() + nums.size()), after
\* which the harness runs another iteration or stops.
SetItemsProcessed ==
    /\ cc_pc = "run"
    /\ cc_i = NumsLen
    /\ items_processed' = items_processed + NumsLen
    /\ cc_iter' = cc_iter + 1
    /\ cc_i' = 0
    /\ \E more \in BOOLEAN :
          cc_pc' = IF more /\ cc_iter + 1 < MaxIters THEN "run" ELSE "done"
    /\ UNCHANGED <<nums, num, etalon, ress, buildVars, reverseVars>>

\* ------------------------------------------------------------ BM_Find

\* Ten-digit values whose reversal is next to the ends of int, a palindrome,
\* trailing zeros.
ReverseCorners ==
    {1463847412, 1563847412, 1463847422, 1000000003, 1000000002, 2147447412,
     1534236469, 1999999999, 1000000000, 2000000002, 2147483641, 1463847402,
     1200, 120, 1056389759, 846384741, 746384741, 2047483647}

ReverseInputs ==
    (-ReverseSpread..ReverseSpread)
    \cup {INT_MAX - k : k \in 0..ReverseSpread}
    \cup {INT_MIN + k : k \in 0..ReverseSpread}
    \cup ReverseCorners
    \cup {-v : v \in ReverseCorners}
    \cup {k * 97654321 : k \in 1..ReverseSpread}

NotCalled == [val |-> 0, ovf |-> FALSE, called |-> FALSE]
Called(r) == [val |-> r.val, ovf |-> r.ovf, called |-> TRUE]

\* What a call that overflowed an int may return.
AnyResult == {INT_MIN, -1, 0, 1, INT_MAX}
Results(r) == IF r.ovf THEN {Called([val |-> v, ovf |-> TRUE]) : v \in AnyResult}
              ELSE {Called(r)}

ReverseInit ==
    /\ rx = 0
    /\ rev_my = NotCalled
    /\ rev_ref = NotCalled

\* benchmark::DoNotOptimize(MySolution::reverse (val))
CallMySolution ==
    /\ ~rev_my.called
    /\ rev_my' \in Results(MySolution_reverse(rx))
    /\ UNCHANGED <<rx, rev_ref, nums, checkVars, buildVars>>

\* benchmark::DoNotOptimize(ReferenceSolution::reverse (val))
CallReferenceSolution ==
    /\ ~rev_ref.called
    /\ rev_ref' \in Results(ReferenceSolution_reverse(rx))
    /\ UNCHANGED <<rx, rev_my, nums, checkVars, buildVars>>

\* ----------------------------------------------------- specifications

\* BM_Count<FullTableSolution> on NThreads threads, the table not yet built.
Init ==
    /\ nums = GenerateNumbers(42)
    /\ BuildInit
    /\ CheckInit
    /\ ReverseInit

Next ==
    \/ \E t \in Threads :
          \/ PassGuard(t)
          \/ AcquireGuard(t)
          \/ Allocate(t)
          \/ AllocateFails(t)
          \/ Terminate(t)
          \/ Spawn(t)
          \/ Return(t)
          \/ Join(t)
          \/ Exit(t)
          \/ Read(t)
          \/ CountItems(t)
    \/ \E w \in Workers :
          \/ WorkerStores(w)
          \/ WorkerFaults(w)
          \/ WorkerEnds(w)

Spec == Init /\ [][Next]_vars

\* BM_CountCheck over a drawn sample array.
InitCheck ==
    /\ nums \in {GenerateNumbers(seed) : seed \in 0..(NumInputs - 1)}
    /\ CheckInit
    /\ BuildInit
    /\ elide = TRUE
    /\ unwinds = TRUE
    /\ ReverseInit

NextCheck == CheckSample \/ SetItemsProcessed

SpecCheck == InitCheck /\ [][NextCheck]_vars

\* BM_Find<MySolution> and BM_Find<ReferenceSolution> on a drawn value.
InitReverse ==
    /\ nums = GenerateNumbers(42)
    /\ CheckInit
    /\ BuildInit
    /\ elide = TRUE
    /\ unwinds = TRUE
    /\ rx \in ReverseInputs
    /\ rev_my = NotCalled
    /\ rev_ref = NotCalled

NextReverse == CallMySolution \/ CallReferenceSolution

SpecReverse == InitReverse /\ [][NextReverse]_vars

\* ------------------------------------------------------------- claims

AllWorkersDone == \A w \in Workers : wstate[w] = "done"
AllWritten == \A ii \in TableIndices : writes[ii] = 1 /\ table[ii] # Uninit

\* C1: whatever the number of threads making their first Count call, the
\* build is started exactly once: from the moment a build has started the
\* build-invocation counter is 1.
BuildStartedOnce == (guard # "Uninitialized" \/ builds > 0) => builds = 1

\* C2: the table is handed out of CountFullTable, the guard is Ready and a
\* caller reads an entry only when all four workers have completed and every
\* index has been written.
JoinBeforeHandOut ==
    (handed \/ guard = "Ready" \/ \E t \in Threads : pc[t] = "read")
        => AllWorkersDone /\ AllWritten

\* C4: the four worker ranges are pairwise disjoint and cover every index;
\* no index is stored to twice, and none is left unwritten once the workers
\* are done.
RangesPartition ==
    \A ii \in TableIndices :
        Cardinality({w \in Workers : RangeStart(w) <= ii /\ ii < RangeFinish(w)}) = 1

PartitionWrittenOnce ==
    /\ RangesPartition
    /\ \A w \in Workers : RangeFinish(w) - RangeStart(w) = batch
    /\ \A ii \in TableIndices : writes[ii] <= 1
    /\ \A w \in Workers :
          wstate[w] = "running" => wii[w] \in RangeStart(w)..RangeFinish(w)
    /\ AllWorkersDone => AllWritten
    /\ guard = "Ready" => AllWritten

TableBuilt == guard = "Ready" /\ AllWorkersDone /\ AllWritten

\* C6: once an allocation of the table has failed no caller gets a count
\* back and no other caller starts the build again.
AllocationFailureIsFatal == failed => (builds = 1 /\ returned = 0)

\* C8: a thread inside its timed loop calls Count only when the table is
\* Ready, and from the first timed read on the table is not written.
TimedCallsFindTableReady ==
    /\ \A t \in Threads :
          (phase[t] = "timed" /\ pc[t] \in {"call", "read"}) => guard = "Ready"
    /\ \A t \in Threads : phase[t] \in {"timed", "finished"} => guard = "Ready"
    /\ timedRead => /\ guard = "Ready"
                    /\ AllWorkersDone
                    /\ AllWritten
                    /\ \A t \in Threads :
                          pc[t] \notin {"alloc", "spawn", "return", "join", "exit"}

AllThreadsTimed ==
    /\ timedRead
    /\ \A t \in Threads :
          /\ phase[t] = "finished"
          /\ titer[t] >= 1
          /\ got[t] = ReferenceSolution_Count(ToU32(TableIndex(nums[NumsLen])))

\* C3: every strategy returns what ReferenceSolution::Count returns, on every
\* sample value (0, 0xFFFFFFFF, the powers of two, 0x55555555, 0xAAAAAAAA
\* among them): the six results of a counted sample equal the reference's,
\* which is the number of 1 bits.
StrategiesAgree ==
    ress # <<>> =>
        /\ Len(ress) = 6
        /\ \A k \in 1..6 : ress[k] = etalon
        /\ etalon = PopCount(num)

AllOnesCounted ==
    /\ num = U32(65535, 65535)
    /\ etalon = 32
    /\ ress = <<32, 32, 32, 32, 32, 32>>

\* C5: ReferenceSolution::Count returns the number of 1 bits, a value in
\* 0..32, and the five stated values.
ReferenceCountsBits ==
    ress # <<>> =>
        /\ etalon = PopCount(num)
        /\ etalon \in 0..32
        /\ num = U32(0, 0) => etalon = 0
        /\ num = U32(65535, 65535) => etalon = 32
        /\ num = U32(0, 11) => etalon = 3
        /\ num = U32(32768, 0) => etalon = 1
        /\ num = U32(21845, 21845) => etalon = 16

AlternatingBitsCounted ==
    /\ num = U32(21845, 21845)
    /\ ress # <<>>
    /\ etalon = 16

IndicesInsideTables ==
    ress # <<>> =>
        LET b == ByteTableSolution_Indices(num)
            e == ElevenBitsTableSolution_Indices(num)
            w == WordsTableSolution_Indices(num)
        IN  /\ \A k \in 1..4 : b[k] \in 0..255
            /\ e[1] \in 0..2047 /\ e[2] \in 0..2047 /\ e[3] \in 0..1023
            /\ \A k \in 1..2 : w[k] \in 0..65535
            /\ num = U32(b[4] * 256 + b[3], b[2] * 256 + b[1])
            /\ num = U32(e[3] * 64 + e[2] \div 32, (e[2] % 32) * 2048 + e[1])
            /\ num = U32(w[2], w[1])

LargestIndicesUsed ==
    /\ num = U32(65535, 65535)
    /\ ByteTableSolution_Indices(num) = <<255, 255, 255, 255>>
    /\ ElevenBitsTableSolution_Indices(num) = <<2047, 2047, 1023>>
    /\ WordsTableSolution_Indices(num) = <<65535, 65535>>
    /\ ress # <<>> /\ ress[2] = 32 /\ ress[3] = 32 /\ ress[4] = 32

\* C10: MySolution::reverse returns what ReferenceSolution::reverse returns,
\* the decimal digits reversed with the sign kept or 0 when that is no int,
\* and no intermediate value of either leaves the range of int.
ReverseSolutionsAgree ==
    /\ rev_my.called => ~rev_my.ovf /\ rev_my.val = ReversedDigits(rx)
    /\ rev_ref.called => ~rev_ref.ovf /\ rev_ref.val = ReversedDigits(rx)
    /\ (rev_my.called /\ rev_ref.called) => rev_my.val = rev_ref.val
    /\ MySolution_reverse(INT_MAX) = Value(0)
    /\ MySolution_reverse(0) = Value(0)

IntMinReversed ==
    /\ rx = INT_MIN
    /\ rev_my.called /\ rev_ref.called
    /\ rev_my.val = 0 /\ rev_ref.val = 0

====
